---- MODULE Spec2Model ----
(***************************************************************************)
(* Device replication pipeline of the warmhouse services:                  *)
(*   apps/devices_management  (HTTP write path + RabbitMQ publisher)       *)
(*   apps/telemetry_api       (RabbitMQ consumer + derived "devices" table)*)
(***************************************************************************)
EXTENDS Integers, Sequences, FiniteSets, TLC

(* ------------------------------ bounds -------------------------------- *)

\* request-handler tasks of the device management API (one request each)
MaxReq == 2
\* messages other publishers hand to the exchange (consumer specification)
MaxArrive == 2
\* largest device id a foreign message names
MaxId == 2
\* last value of the wall clock
MaxClock == 1
\* process_message tasks that may be between receipt and ack/nack at once
MaxInFlight == 2
\* repetitions of one event tried by the idempotence properties
MaxRepeat == 3

(* --------------------------- JSON / DB values ------------------------- *)

JNull == [t |-> "null"]
JStr(s) == [t |-> "str", v |-> s]
JInt(i) == [t |-> "int", v |-> i]
JList(q) == [t |-> "list", v |-> q]
\* a dict is the sequence of its <<key, value>> items
JDict(d) == [t |-> "dict", v |-> d]
\* a point in time held as datetime / timestamp
Timestamp(n) == [t |-> "timestamp", v |-> n]
\* datetime.isoformat(): the text of that point in time
isoformat(ts) == [t |-> "str", v |-> <<"iso", ts.v>>]

\* json.dumps(...).encode(): the bytes of a JSON text
json_dumps(value) == [json |-> value]
\* bytes that are not a JSON text
Malformed == [bad |-> TRUE]
JsonDecodes(body) == "json" \in DOMAIN body
\* json.loads(body.decode()) of a JSON text
json_loads(body) == body.json
\* a decoded JSON value that is an object (a dict of keys)
IsObject(value) == "t" \notin DOMAIN value

\* Python truthiness of an optional container: None, {} and [] are falsy
Truthy(value) ==
    /\ value.t # "null"
    /\ value.t \in {"list", "dict"} => Len(value.v) > 0
\* Python `a or b`
Or(a, b) == IF Truthy(a) THEN a ELSE b

(* ----------------------------- routing keys --------------------------- *)

\* a routing key is its dot-delimited words
RK_CREATED == <<"devices", "created">>
RK_UPDATED == <<"devices", "updated">>
RK_DELETED == <<"devices", "deleted">>
\* the exchange RabbitMQClient.connect declares and publishes to
PublisherExchange == [name |-> "device-exchange", type |-> "topic", durable |-> TRUE]
\* the exchange start_event_consumer declares and binds its queue to
ConsumerExchange == [name |-> "device-exchange", type |-> "topic", durable |-> TRUE]
\* (variant: the queue is bound with the key devices.created)
BindingMatchesCreated(rk) == rk = <<"devices", "created">>
\* queue.bind(exchange, routing_key="devices.*"): exactly two words, the first "devices"
BindingMatches(rk) == Len(rk) = 2 /\ rk[1] = "devices"

(* ------------------- telemetry_api/event_handler.py ------------------- *)

DeviceRequired == {"id", "name", "type"}
DeviceOptional == {"description", "location", "connection_info", "tags", "created_at"}
DeviceFields == DeviceRequired \cup DeviceOptional
FieldType(f) ==
    CASE f = "id" -> "int"
      [] f = "connection_info" -> "dict"
      [] f = "tags" -> "list"
      [] OTHER -> "str"

\* (variant: name declared optional)
DeviceValidNameOptional(data) ==
    /\ IsObject(data)
    /\ \A f \in {"id", "type"} : f \in DOMAIN data /\ data[f].t = FieldType(f)
    /\ \A f \in DeviceOptional \cup {"name"} :
          f \in DOMAIN data => data[f].t \in {FieldType(f), "null"}
\* pydantic validation of Device(**message_data)
DeviceValid(data) ==
    /\ IsObject(data)
    /\ \A f \in DeviceRequired : f \in DOMAIN data /\ data[f].t = FieldType(f)
    /\ \A f \in DeviceOptional :
          f \in DOMAIN data => data[f].t \in {FieldType(f), "null"}
\* the Device built from a valid payload: absent optional fields are None
Device(data) == [f \in DeviceFields |-> IF f \in DOMAIN data THEN data[f] ELSE JNull]

\* pydantic validation of DeviceDeleted(**message_data)
DeviceDeletedValid(data) ==
    /\ IsObject(data)
    /\ "id" \in DOMAIN data /\ data["id"].t = "int"
    /\ "deletedAt" \in DOMAIN data => data["deletedAt"].t \in {"str", "null"}
DeviceDeleted(data) ==
    [id |-> data["id"],
     deletedAt |-> IF "deletedAt" \in DOMAIN data THEN data["deletedAt"] ELSE JNull]

\* the row INSERT ... VALUES ($1..$7, NOW(), NOW()) proposes
InsertedRow(device_data, now_) ==
    [id |-> device_data.id.v,
     name |-> device_data.name,
     type |-> device_data.type,
     description |-> device_data.description,
     location |-> device_data.location,
     connection_info |-> json_dumps(Or(device_data.connection_info, JDict(<<>>))),
     tags |-> Or(device_data.tags, JList(<<>>)),
     created_at |-> Timestamp(now_),
     updated_at |-> Timestamp(now_)]

\* (variant: the conflict branch also rewrites created_at)
ConflictRowResetsCreatedAt(old, excluded, now_) ==
    [excluded EXCEPT !.updated_at = Timestamp(now_)]
\* (variant: the conflict branch keeps a stored value where the event has none)
ConflictRowMerges(old, excluded, now_) ==
    [old EXCEPT !.name = excluded.name,
                !.type = excluded.type,
                !.description = IF excluded.description = JNull THEN @
                                ELSE excluded.description,
                !.location = IF excluded.location = JNull THEN @
                             ELSE excluded.location,
                !.connection_info = IF excluded.connection_info = json_dumps(JDict(<<>>))
                                    THEN @ ELSE excluded.connection_info,
                !.tags = IF excluded.tags = JList(<<>>) THEN @ ELSE excluded.tags,
                !.updated_at = Timestamp(now_)]
\* ON CONFLICT (id) DO UPDATE SET ... : the existing row after the update
ConflictRow(old, excluded, now_) ==
    [old EXCEPT !.name = excluded.name,
                !.type = excluded.type,
                !.description = excluded.description,
                !.location = excluded.location,
                !.connection_info = excluded.connection_info,
                !.tags = excluded.tags,
                !.updated_at = Timestamp(now_)]

\* (variant: the statement replaces the whole row, as a plain INSERT of a new row)
save_device_replaces_row(table, device_data, now_) ==
    [i \in DOMAIN table \cup {device_data.id.v} |->
        IF i # device_data.id.v THEN table[i] ELSE InsertedRow(device_data, now_)]
\* the derived devices table after save_device_to_db returns
save_device_to_db(table, device_data, now_) ==
    LET id == device_data.id.v
        excluded == InsertedRow(device_data, now_)
    IN  [i \in DOMAIN table \cup {id} |->
            IF i # id THEN table[i]
            ELSE IF id \in DOMAIN table THEN ConflictRow(table[id], excluded, now_)
            ELSE excluded]

\* (variant: the DELETE has no WHERE clause)
delete_every_device(table, device_id) == <<>>
\* (variant: the DELETE matches no row)
delete_no_device(table, device_id) == table
\* the derived devices table after delete_device_from_db returns
delete_device_from_db(table, device_id) ==
    [i \in DOMAIN table \ {device_id} |-> table[i]]

\* process_message: event_type = message.routing_key.split(".")[-1], renamed
event_type(routing_key) ==
    LET last == routing_key[Len(routing_key)]
    IN  CASE last = "created" -> "deviceCreated"
          [] last = "updated" -> "deviceUpdated"
          [] last = "deleted" -> "deviceDeleted"
          [] OTHER -> last

(* ------------------------------- state -------------------------------- *)

VARIABLES
    now,             \* wall clock (datetime.now(), SQL NOW())
    pool,            \* telemetry database: the derived devices table, id -> row
    queue,           \* device-events-queue: ids of the messages waiting for delivery
    msgs,            \* every message the exchange routed to the queue, by message id
    inflight,        \* messages whose process_message awaits its store operation
    applied,         \* store operations that returned: [m, at], in that order
    foreignLeft,     \* messages other publishers may still hand to the exchange
    response,        \* telemetry API: the response of its last readings request
    db,              \* devices database: the authoritative devices table, id -> row
    sensors,         \* the smart_home service: state of each sensor, by external id
    req,             \* the request-handler tasks of the device management API
    rabbitmq_client, \* RabbitMQClient: its connection, channel and exchange handles
    conns,           \* every broker connection the client opened: "open" / "closed"
    outbox           \* requests whose publish awaits the broker, in call order

consumerVars == <<now, pool, queue, msgs, inflight, applied, foreignLeft, response>>
apiVars == <<db, sensors, req, rabbitmq_client, conns, outbox>>
vars == <<now, pool, queue, msgs, inflight, applied, foreignLeft, response,
          db, sensors, req, rabbitmq_client, conns, outbox>>

DeviceIds == 1 .. MaxId

(* ------------------------- the broker's exchange ---------------------- *)

\* the exchange routes a published message: to the queue when the binding matches
Routed(routing_key, body, origin) ==
    IF BindingMatches(routing_key)
    THEN /\ msgs' = Append(msgs, [routing_key |-> routing_key, body |-> body,
                                  origin |-> origin, hist |-> <<>>])
         /\ queue' = Append(queue, Len(msgs) + 1)
    ELSE UNCHANGED <<msgs, queue>>

(* ------------------------- messages of other publishers --------------- *)

ConnectionInfo1 == JDict(<< <<"host", "h">> >>)
FullSnapshot(id, name) ==
    [id |-> JInt(id), name |-> JStr(name), type |-> JStr("lamp"),
     description |-> JStr("d"), location |-> JNull,
     connection_info |-> ConnectionInfo1, tags |-> JList(<<"kitchen">>),
     created_at |-> isoformat(Timestamp(0))]
PartialSnapshot(id, name) ==
    [id |-> JInt(id), name |-> JStr(name), type |-> JStr("lamp")]
DeletedPayload(id) ==
    [id |-> JInt(id), deletedAt |-> isoformat(Timestamp(0))]
InvalidPayloads ==
    { [id |-> JInt(1), type |-> JStr("lamp")],
      [id |-> JInt(1), name |-> JStr("A")],
      [name |-> JStr("A"), type |-> JStr("lamp")],
      [id |-> JInt(1), name |-> JNull, type |-> JStr("lamp")] }
SnapshotBodies ==
    {json_dumps(FullSnapshot(i, "A")) : i \in DeviceIds}
        \cup {json_dumps(PartialSnapshot(i, "B")) : i \in DeviceIds}
UpsertBodies ==
    SnapshotBodies \cup {json_dumps(p) : p \in InvalidPayloads}
        \cup {Malformed, json_dumps(JNull)}
DeleteBodies ==
    {json_dumps(DeletedPayload(i)) : i \in DeviceIds}
        \cup {json_dumps([name |-> JStr("A"), type |-> JStr("lamp")]), Malformed}
ForeignMessages ==
    ({RK_CREATED, RK_UPDATED} \X UpsertBodies)
        \cup ({RK_DELETED} \X DeleteBodies)
        \cup ({<<"devices", "foo">>} \X {json_dumps(FullSnapshot(1, "A")), Malformed})
        \cup ({<<"devices", "deviceCreated">>} \X {json_dumps(FullSnapshot(1, "A"))})
        \cup ({<<"sensors", "created">>} \X {json_dumps(FullSnapshot(1, "A"))})

\* another publisher hands a message to the exchange
Arrive(routing_key, body) ==
    /\ foreignLeft > 0
    /\ foreignLeft' = foreignLeft - 1
    /\ Routed(routing_key, body, 0)
    /\ UNCHANGED <<now, pool, inflight, applied, response>>
    /\ UNCHANGED apiVars

(* ----------------- telemetry_api: the event consumer ------------------ *)

\* (variant: the failed message is put back on the queue)
nack_requeue_true == TRUE
\* message.nack(requeue=False): the flag process_message passes
nack_requeue == FALSE

\* the queue after the consumer settles message m: a nack with requeue puts it back
Settled(q, m, verdict) ==
    IF verdict = "Nacked" /\ nack_requeue THEN <<m>> \o q ELSE q

\* process_message up to its first suspension: what the try block decides to await
\*   "save" / "delete": the store operation, "ack": message.ack() at once,
\*   "raise": an exception reached the except clause
StoreOperation(message) ==
    IF ~JsonDecodes(message.body) THEN "raise"
    ELSE LET message_data == json_loads(message.body)
             kind == event_type(message.routing_key)
         IN  IF kind \in {"deviceCreated", "deviceUpdated"}
             THEN IF DeviceValid(message_data) THEN "save" ELSE "raise"
             ELSE IF kind = "deviceDeleted"
             THEN IF DeviceDeletedValid(message_data) THEN "delete" ELSE "raise"
             ELSE "ack"

Record(m, steps) == [msgs EXCEPT ![m].hist = @ \o steps]

\* the broker delivers the head of the queue and queue.consume starts
\* process_message for it; the handler runs to its first suspension
process_message(m) ==
    /\ queue # <<>> /\ m = Head(queue)
    /\ Cardinality(inflight) < MaxInFlight
    /\ LET op == StoreOperation(msgs[m])
       IN  CASE op = "raise" ->
                  /\ msgs' = Record(m, <<"Received", "Nacked">>)
                  /\ queue' = Settled(Tail(queue), m, "Nacked")
                  /\ UNCHANGED inflight
             [] op = "ack" ->
                  /\ msgs' = Record(m, <<"Received", "Decoded", "Acked">>)
                  /\ queue' = Settled(Tail(queue), m, "Acked")
                  /\ UNCHANGED inflight
             [] OTHER ->
                  /\ msgs' = Record(m, <<"Received", "Decoded">>)
                  /\ queue' = Tail(queue)
                  /\ inflight' = inflight \cup {m}
    /\ UNCHANGED <<now, pool, applied, foreignLeft, response>>
    /\ UNCHANGED apiVars

\* the derived table after the store operation process_message awaits returns
StoreResult(table, message, now_) ==
    LET message_data == json_loads(message.body)
    IN  IF StoreOperation(message) = "save"
        THEN save_device_to_db(table, Device(message_data), now_)
        ELSE delete_device_from_db(table, DeviceDeleted(message_data).id.v)

\* (variant: message.ack() raises after the store operation returned)
store_returns_ack_raises(m) ==
    /\ m \in inflight
    /\ inflight' = inflight \ {m}
    /\ pool' = StoreResult(pool, msgs[m], now)
    /\ applied' = Append(applied, [m |-> m, at |-> now])
    /\ msgs' = Record(m, <<"Applied", "Nacked">>)
    /\ queue' = Settled(queue, m, "Nacked")
    /\ UNCHANGED <<now, foreignLeft, response>>
    /\ UNCHANGED apiVars
\* the awaited store operation returns and process_message acknowledges
store_returns(m) ==
    /\ m \in inflight
    /\ inflight' = inflight \ {m}
    /\ pool' = StoreResult(pool, msgs[m], now)
    /\ applied' = Append(applied, [m |-> m, at |-> now])
    /\ msgs' = Record(m, <<"Applied", "Acked">>)
    /\ queue' = Settled(queue, m, "Acked")
    /\ UNCHANGED <<now, foreignLeft, response>>
    /\ UNCHANGED apiVars

\* (variant: the statement takes effect although the call raises)
store_raises_after_write(m) ==
    /\ m \in inflight
    /\ inflight' = inflight \ {m}
    /\ pool' = StoreResult(pool, msgs[m], now)
    /\ msgs' = Record(m, <<"Nacked">>)
    /\ queue' = Settled(queue, m, "Nacked")
    /\ UNCHANGED <<now, applied, foreignLeft, response>>
    /\ UNCHANGED apiVars
\* the awaited store operation raises (constraint violation, connection loss):
\* save_device_to_db / delete_device_from_db re-raise, process_message nacks
store_raises(m) ==
    /\ m \in inflight
    /\ inflight' = inflight \ {m}
    /\ msgs' = Record(m, <<"Nacked">>)
    /\ queue' = Settled(queue, m, "Nacked")
    /\ UNCHANGED <<now, pool, applied, foreignLeft, response>>
    /\ UNCHANGED apiVars

\* time passes
Tick ==
    /\ now < MaxClock
    /\ now' = now + 1
    /\ UNCHANGED <<pool, queue, msgs, inflight, applied, foreignLeft, response>>
    /\ UNCHANGED apiVars

(* ---------------- devices_management: rabbitmq.py --------------------- *)

None == 0
Requests == 1 .. MaxReq

IsClosed(connection) == conns[connection] = "closed"

\* publish_event line 35: `not self.connection or self.connection.is_closed`
NeedsConnect(client) ==
    client.connection = None \/ IsClosed(client.connection)

\* publish_event lines 38-50 up to the suspension in exchange.publish: the message
\* is handed to the cached exchange, or the call raises at once
\*   rq: the handler's record, holding the routing key and the message data;
\*   its field `exchange` keeps the self.exchange that line 46 called publish on
Publish(r, rq, client) ==
    IF client.exchange = None \/ IsClosed(client.exchange)
    THEN /\ req' = [req EXCEPT ![r] = [rq EXCEPT !.pc = "failed", !.status = 500,
                                                !.exchange = client.exchange]]
         /\ UNCHANGED outbox
    ELSE /\ req' = [req EXCEPT ![r] = [rq EXCEPT !.pc = "publish", !.via = client.exchange,
                                                !.exchange = client.exchange]]
         /\ outbox' = Append(outbox, r)

\* rabbitmq_client.publish_event(routing_key, message_data), called by the
\* publish_device_*_event functions, up to its first suspension
publish_event(r, rq, routing_key, message_data) ==
    LET call == [rq EXCEPT !.routing_key = routing_key,
                           !.message_data = message_data,
                           !.attempts = Append(@, <<routing_key, message_data.id.v>>)]
    IN  IF NeedsConnect(rabbitmq_client)
        THEN /\ req' = [req EXCEPT ![r] = [call EXCEPT !.pc = "connect_robust"]]
             /\ UNCHANGED outbox
        ELSE Publish(r, call, rabbitmq_client)

\* connect line 23: aio_pika.connect_robust returns a new connection
connect_robust_returns(r) ==
    /\ req[r].pc = "connect_robust"
    /\ conns' = Append(conns, "open")
    /\ rabbitmq_client' = [rabbitmq_client EXCEPT !.connection = Len(conns) + 1]
    /\ req' = [req EXCEPT ![r].pc = "channel", ![r].via = Len(conns) + 1]
    /\ UNCHANGED <<db, sensors, outbox>>
    /\ UNCHANGED consumerVars

\* connect line 24: connection.channel() returns the new connection's channel
channel_returns(r) ==
    /\ req[r].pc = "channel"
    /\ ~IsClosed(req[r].via)
    /\ rabbitmq_client' = [rabbitmq_client EXCEPT !.channel = req[r].via]
    /\ req' = [req EXCEPT ![r].pc = "declare_exchange"]
    /\ UNCHANGED <<db, sensors, conns, outbox>>
    /\ UNCHANGED consumerVars

\* connect lines 25-28: declare_exchange returns; connect returns and
\* publish_event goes on to publish on self.exchange
declare_exchange_returns(r) ==
    /\ req[r].pc = "declare_exchange"
    /\ ~IsClosed(req[r].via)
    /\ rabbitmq_client' = [rabbitmq_client EXCEPT !.exchange = req[r].via]
    /\ Publish(r, req[r], rabbitmq_client')
    /\ UNCHANGED <<db, sensors, conns>>
    /\ UNCHANGED consumerVars

\* connect lines 29-31: a step of connect raises; publish_event and the
\* request handler propagate it
connect_raises(r) ==
    /\ req[r].pc \in {"connect_robust", "channel", "declare_exchange"}
    /\ req' = [req EXCEPT ![r].pc = "failed", ![r].status = 500]
    /\ UNCHANGED <<db, sensors, rabbitmq_client, conns, outbox>>
    /\ UNCHANGED consumerVars

\* the broker takes the published message from the channel and routes it;
\* exchange.publish returns and the handler finishes with its response
\* (messages of one channel reach the exchange in the order they were sent)
publish_returns(r) ==
    /\ req[r].pc = "publish"
    /\ ~IsClosed(req[r].via)
    /\ \A i \in 1 .. Len(outbox) :
          outbox[i] = r => \A j \in 1 .. i - 1 : req[outbox[j]].via # req[r].via
    /\ outbox' = SelectSeq(outbox, LAMBDA x : x # r)
    /\ IF PublisherExchange.name = ConsumerExchange.name
       THEN Routed(req[r].routing_key, json_dumps(req[r].message_data), r)
       ELSE UNCHANGED <<msgs, queue>>
    /\ req' = [req EXCEPT ![r].pc = "done",
                          ![r].status = IF req[r].op = "create" THEN 201 ELSE 200]
    /\ UNCHANGED <<now, pool, inflight, applied, foreignLeft, response>>
    /\ UNCHANGED <<db, sensors, rabbitmq_client, conns>>

\* (variant: the handler undoes its write when the publish fails)
publish_raises_rolls_back(r) ==
    /\ req[r].pc = "publish"
    /\ outbox' = SelectSeq(outbox, LAMBDA x : x # r)
    /\ req' = [req EXCEPT ![r].pc = "failed", ![r].status = 500]
    /\ db' = [i \in DOMAIN db \ {req[r].device.id} |-> db[i]]
    /\ UNCHANGED <<sensors, rabbitmq_client, conns>>
    /\ UNCHANGED consumerVars
\* publish_event lines 48-50: exchange.publish raises; the message is not routed
publish_raises(r) ==
    /\ req[r].pc = "publish"
    /\ outbox' = SelectSeq(outbox, LAMBDA x : x # r)
    /\ req' = [req EXCEPT ![r].pc = "failed", ![r].status = 500]
    /\ UNCHANGED <<db, sensors, rabbitmq_client, conns>>
    /\ UNCHANGED consumerVars

\* the broker connection of the client is lost and reported closed
connection_closed(c) ==
    /\ c \in 1 .. Len(conns)
    /\ conns[c] = "open"
    /\ conns' = [conns EXCEPT ![c] = "closed"]
    /\ UNCHANGED <<db, sensors, req, rabbitmq_client, outbox>>
    /\ UNCHANGED consumerVars

(* ------------------- devices_management: api.py ----------------------- *)

\* the payload publish_device_created_event / publish_device_updated_event build
device_data(device) ==
    [id |-> JInt(device.id),
     name |-> device.name,
     type |-> device.type,
     description |-> device.description,
     location |-> device.location,
     connection_info |-> device.connection_info,
     tags |-> device.tags,
     created_at |-> IF device.created_at # JNull
                    THEN isoformat(device.created_at) ELSE JNull]

publish_device_created_event(r, rq, device) ==
    publish_event(r, rq, RK_CREATED, device_data(device))

publish_device_updated_event(r, rq, device) ==
    publish_event(r, rq, RK_UPDATED, device_data(device))

\* (variant: the deleted event goes out under the updated key)
publish_device_deleted_event_as_updated(r, rq, device_id) ==
    publish_event(r, rq, RK_UPDATED,
                  [id |-> JInt(device_id), deletedAt |-> isoformat(Timestamp(now))])
publish_device_deleted_event(r, rq, device_id) ==
    publish_event(r, rq, RK_DELETED,
                  [id |-> JInt(device_id), deletedAt |-> isoformat(Timestamp(now))])

\* a request record's field `sensor` follows its smart_home_client call:
\* "none" (no call), "called" (awaited), "returned", "raised";
\* its field `commit_no` is the place of its db.commit() among all commits

\* the request bodies tried
CreateRequests ==
    { [name |-> JStr("A"), type |-> JStr("lamp"), description |-> JNull,
       location |-> JNull, connection_info |-> JDict(<<>>), tags |-> JNull],
      [name |-> JStr("A"), type |-> JStr("temperature_sensor"),
       description |-> JStr("d"), location |-> JStr("l"),
       connection_info |-> ConnectionInfo1, tags |-> JList(<<"kitchen">>)] }
UpdateRequests ==
    { [name |-> JStr("B"), description |-> JNull, location |-> JNull,
       connection_info |-> JNull, tags |-> JNull],
      [name |-> JNull, description |-> JNull, location |-> JNull,
       connection_info |-> JNull, tags |-> JNull] }
UpdatableFields == {"name", "description", "location", "connection_info", "tags"}

IdleRequest ==
    [pc |-> "idle", op |-> "none", device_id |-> 0, data |-> JNull, device |-> JNull,
     committed |-> FALSE, attempts |-> <<>>, routing_key |-> <<>>,
     message_data |-> JNull, via |-> None, exchange |-> None, sensor |-> "none",
     commit_no |-> 0, status |-> 0]

\* a handler task starts; the tasks are taken in order of their number
Starts(r) == req[r].pc = "idle" /\ (r > 1 => req[r - 1].pc # "idle")

\* the id the primary-key sequence assigns next
NextDeviceId ==
    Cardinality({q \in Requests : req[q].op = "create" /\ req[q].committed}) + 1

\* the place the next db.commit() takes among the commits of all handlers
NextCommitNo == Cardinality({q \in Requests : req[q].committed}) + 1

Failed(r, rq, status) ==
    /\ req' = [req EXCEPT ![r] = [rq EXCEPT !.pc = "failed", !.status = status]]
    /\ UNCHANGED outbox

\* create_device lines 206-220: db.add, db.commit, db.refresh, then the publish
CommitCreate(r, rq, external_id) ==
    LET device == [id |-> NextDeviceId, external_id |-> external_id,
                   name |-> rq.data.name, type |-> rq.data.type,
                   description |-> rq.data.description,
                   location |-> rq.data.location,
                   connection_info |-> rq.data.connection_info,
                   tags |-> rq.data.tags,
                   created_at |-> Timestamp(now), updated_at |-> Timestamp(now)]
    IN  /\ db' = [i \in DOMAIN db \cup {device.id} |->
                     IF i = device.id THEN device ELSE db[i]]
        /\ publish_device_created_event(
               r, [rq EXCEPT !.device = device, !.device_id = device.id,
                             !.committed = TRUE, !.commit_no = NextCommitNo], device)

\* update_device lines 279-295: the attribute writes, db.commit (an UPDATE of the
\* attributes that changed, which fails when the row is gone), db.refresh, publish
CommitUpdate(r, rq) ==
    LET id == rq.device.id
        changed == {f \in UpdatableFields :
                       rq.data[f] # JNull /\ rq.data[f] # rq.device[f]}
        device == [f \in DOMAIN db[id] |->
                      IF f \in changed THEN rq.data[f]
                      ELSE IF f = "updated_at" THEN Timestamp(now)
                      ELSE db[id][f]]
    IN  IF id \notin DOMAIN db
        THEN /\ Failed(r, rq, 500)
             /\ UNCHANGED db
        ELSE /\ db' = [db EXCEPT ![id] = device]
             /\ publish_device_updated_event(
                    r, [rq EXCEPT !.device = device, !.committed = TRUE,
                                  !.commit_no = NextCommitNo], device)

\* delete_device lines 324-327: db.delete, db.commit, then the publish
CommitDelete(r, rq) ==
    /\ db' = [i \in DOMAIN db \ {rq.device.id} |-> db[i]]
    /\ publish_device_deleted_event(
           r, [rq EXCEPT !.committed = TRUE, !.commit_no = NextCommitNo], rq.device.id)

HasSensor(device) ==
    device.type = JStr("temperature_sensor") /\ device.external_id # JNull

\* POST /v1/devices up to its first suspension
create_device(r, body) ==
    /\ Starts(r)
    /\ LET rq == [req[r] EXCEPT !.op = "create", !.data = body]
       IN  IF body.type = JStr("temperature_sensor")
           THEN /\ req' = [req EXCEPT ![r] = [rq EXCEPT !.pc = "create_sensor",
                                                       !.sensor = "called"]]
                /\ UNCHANGED <<db, outbox>>
           ELSE CommitCreate(r, rq, JNull)
    /\ UNCHANGED <<sensors, rabbitmq_client, conns>>
    /\ UNCHANGED consumerVars

\* PUT /v1/devices/{device_id} up to its first suspension
update_device(r, device_id, body) ==
    /\ Starts(r)
    /\ LET rq == [req[r] EXCEPT !.op = "update", !.device_id = device_id,
                                !.data = body]
       IN  IF device_id \notin DOMAIN db
           THEN Failed(r, rq, 404) /\ UNCHANGED db
           ELSE IF HasSensor(db[device_id])
           THEN /\ req' = [req EXCEPT ![r] = [rq EXCEPT !.pc = "update_sensor",
                                                       !.sensor = "called",
                                                       !.device = db[device_id]]]
                /\ UNCHANGED <<db, outbox>>
           ELSE CommitUpdate(r, [rq EXCEPT !.device = db[device_id]])
    /\ UNCHANGED <<sensors, rabbitmq_client, conns>>
    /\ UNCHANGED consumerVars

\* DELETE /v1/devices/{device_id} up to its first suspension
delete_device(r, device_id) ==
    /\ Starts(r)
    /\ LET rq == [req[r] EXCEPT !.op = "delete", !.device_id = device_id]
       IN  IF device_id \notin DOMAIN db
           THEN Failed(r, rq, 404) /\ UNCHANGED db
           ELSE IF HasSensor(db[device_id])
           THEN /\ req' = [req EXCEPT ![r] = [rq EXCEPT !.pc = "delete_sensor",
                                                       !.sensor = "called",
                                                       !.device = db[device_id]]]
                /\ UNCHANGED <<db, outbox>>
           ELSE CommitDelete(r, [rq EXCEPT !.device = db[device_id]])
    /\ UNCHANGED <<sensors, rabbitmq_client, conns>>
    /\ UNCHANGED consumerVars

(* ----------------- devices_management: http_client.py ----------------- *)

\* smart_home_client.create_sensor returns the new sensor; create_device goes on
create_sensor_returns(r) ==
    /\ req[r].pc = "create_sensor"
    /\ sensors' = Append(sensors, "present")
    /\ CommitCreate(r, [req[r] EXCEPT !.sensor = "returned"], JInt(Len(sensors) + 1))
    /\ UNCHANGED <<rabbitmq_client, conns>>
    /\ UNCHANGED consumerVars

\* smart_home_client.update_sensor returns; update_device goes on
update_sensor_returns(r) ==
    /\ req[r].pc = "update_sensor"
    /\ sensors[req[r].device.external_id.v] # "deleted"
    /\ sensors' = [sensors EXCEPT ![req[r].device.external_id.v] = "updated"]
    /\ CommitUpdate(r, [req[r] EXCEPT !.sensor = "returned"])
    /\ UNCHANGED <<rabbitmq_client, conns>>
    /\ UNCHANGED consumerVars

\* smart_home_client.delete_sensor returns; delete_device goes on
delete_sensor_returns(r) ==
    /\ req[r].pc = "delete_sensor"
    /\ sensors[req[r].device.external_id.v] # "deleted"
    /\ sensors' = [sensors EXCEPT ![req[r].device.external_id.v] = "deleted"]
    /\ CommitDelete(r, [req[r] EXCEPT !.sensor = "returned"])
    /\ UNCHANGED <<rabbitmq_client, conns>>
    /\ UNCHANGED consumerVars

\* (variant: the handler catches the failure of the call and goes on)
sensor_call_ignored(r) ==
    /\ req[r].pc \in {"create_sensor", "update_sensor", "delete_sensor"}
    /\ LET rq == [req[r] EXCEPT !.sensor = "raised"]
       IN  CASE req[r].pc = "create_sensor" -> CommitCreate(r, rq, JNull)
             [] req[r].pc = "update_sensor" -> CommitUpdate(r, rq)
             [] OTHER -> CommitDelete(r, rq)
    /\ UNCHANGED <<sensors, rabbitmq_client, conns>>
    /\ UNCHANGED consumerVars
\* response.raise_for_status() raises (or the call itself fails): the handler ends
sensor_call_raises(r) ==
    /\ req[r].pc \in {"create_sensor", "update_sensor", "delete_sensor"}
    /\ Failed(r, [req[r] EXCEPT !.sensor = "raised"], 500)
    /\ UNCHANGED <<db, sensors, rabbitmq_client, conns>>
    /\ UNCHANGED consumerVars

(* ------------------------ telemetry_api: api.py ----------------------- *)

\* no request answered yet
NoResponse == [status |-> 0]

\* the `limit` query values tried (the default)
ReadLimits == {100}

\* SELECT EXISTS(SELECT 1 FROM devices WHERE id = $1)
device_exists(table, device_id) == device_id \in DOMAIN table

\* the response of a readings endpoint: 404 when the derived table has no row of
\* the id, else `count` generated sample readings
ReadingsResponse(device_id, count) ==
    IF ~device_exists(pool, device_id)
    THEN [status |-> 404, detail |-> "Device not found"]
    ELSE [status |-> 200, device_id |-> device_id, readings |-> count]

\* (variant: the endpoint registers a device it does not find)
get_device_readings_registers(device_id, limit) ==
    /\ response' = ReadingsResponse(device_id, limit)
    /\ pool' = IF device_exists(pool, device_id) THEN pool
               ELSE save_device_to_db(pool, Device(PartialSnapshot(device_id, "A")), now)
    /\ UNCHANGED <<now, queue, msgs, inflight, applied, foreignLeft>>
    /\ UNCHANGED apiVars
\* GET /v1/devices/{device_id}/readings
get_device_readings(device_id, limit) ==
    /\ response' = ReadingsResponse(device_id, limit)
    /\ UNCHANGED <<now, pool, queue, msgs, inflight, applied, foreignLeft>>
    /\ UNCHANGED apiVars

\* GET /v1/devices/{device_id}/readings/latest
get_latest_device_readings(device_id) ==
    /\ response' = ReadingsResponse(device_id, 5)
    /\ UNCHANGED <<now, pool, queue, msgs, inflight, applied, foreignLeft>>
    /\ UNCHANGED apiVars

(* --------------------- consumer-only specification -------------------- *)

\* the device management service after its lifespan startup: empty tables,
\* rabbitmq_client.connect() done
InitApi ==
    /\ db = <<>>
    /\ sensors = <<>>
    /\ req = [r \in Requests |-> IdleRequest]
    /\ rabbitmq_client = [connection |-> 1, channel |-> 1, exchange |-> 1]
    /\ conns = <<"open">>
    /\ outbox = <<>>

InitConsumer ==
    /\ now = 0
    /\ pool = <<>>
    /\ queue = <<>>
    /\ msgs = <<>>
    /\ inflight = {}
    /\ applied = <<>>
    /\ foreignLeft = MaxArrive
    /\ response = NoResponse
    /\ InitApi

NextConsumer ==
    \/ \E a \in ForeignMessages : Arrive(a[1], a[2])
    \/ \E m \in 1 .. Len(msgs) : process_message(m)
    \/ \E m \in inflight : store_returns(m)
    \/ \E m \in inflight : store_raises(m)
    \/ \E id \in DeviceIds, limit \in ReadLimits : get_device_readings(id, limit)
    \/ \E id \in DeviceIds : get_latest_device_readings(id)
    \/ Tick

SpecConsumer == InitConsumer /\ [][NextConsumer]_vars

\* the broker delivers what is queued, the event loop runs every handler that can
\* run, and an awaited store operation returns or raises
SpecConsumerFair ==
    /\ SpecConsumer
    /\ WF_vars(\E m \in 1 .. Len(msgs) : process_message(m))
    /\ WF_vars(\E m \in inflight : store_returns(m) \/ store_raises(m))

(* ----------------------- the whole pipeline --------------------------- *)

Init ==
    /\ now = 0
    /\ pool = <<>>
    /\ queue = <<>>
    /\ msgs = <<>>
    /\ inflight = {}
    /\ applied = <<>>
    /\ foreignLeft = 0
    /\ response = NoResponse
    /\ InitApi

Next ==
    \/ \E r \in Requests, body \in CreateRequests : create_device(r, body)
    \/ \E r \in Requests, id \in DeviceIds, body \in UpdateRequests :
          update_device(r, id, body)
    \/ \E r \in Requests, id \in DeviceIds : delete_device(r, id)
    \/ \E r \in Requests : create_sensor_returns(r)
    \/ \E r \in Requests : update_sensor_returns(r)
    \/ \E r \in Requests : delete_sensor_returns(r)
    \/ \E r \in Requests : sensor_call_raises(r)
    \/ \E r \in Requests : connect_robust_returns(r)
    \/ \E r \in Requests : channel_returns(r)
    \/ \E r \in Requests : declare_exchange_returns(r)
    \/ \E r \in Requests : connect_raises(r)
    \/ \E r \in Requests : publish_returns(r)
    \/ \E r \in Requests : publish_raises(r)
    \/ \E c \in 1 .. Len(conns) : connection_closed(c)
    \/ \E m \in 1 .. Len(msgs) : process_message(m)
    \/ \E m \in inflight : store_returns(m)
    \/ \E m \in inflight : store_raises(m)
    \/ Tick

Spec == Init /\ [][Next]_vars

(* ------------------- the device management service alone -------------- *)

NextApi ==
    \/ \E r \in Requests, body \in CreateRequests : create_device(r, body)
    \/ \E r \in Requests, id \in DeviceIds, body \in UpdateRequests :
          update_device(r, id, body)
    \/ \E r \in Requests, id \in DeviceIds : delete_device(r, id)
    \/ \E r \in Requests : create_sensor_returns(r)
    \/ \E r \in Requests : update_sensor_returns(r)
    \/ \E r \in Requests : delete_sensor_returns(r)
    \/ \E r \in Requests : sensor_call_raises(r)
    \/ \E r \in Requests : connect_robust_returns(r)
    \/ \E r \in Requests : channel_returns(r)
    \/ \E r \in Requests : declare_exchange_returns(r)
    \/ \E r \in Requests : connect_raises(r)
    \/ \E r \in Requests : publish_returns(r)
    \/ \E r \in Requests : publish_raises(r)
    \/ \E c \in 1 .. Len(conns) : connection_closed(c)

SpecApi == Init /\ [][NextApi]_vars

(* ============================ properties ============================== *)

Messages == 1 .. Len(msgs)
Hist(m) == msgs[m].hist
Occurs(step, h) == \E i \in 1 .. Len(h) : h[i] = step
Count(step, h) == Cardinality({i \in 1 .. Len(h) : h[i] = step})
InQueue(m) == \E i \in 1 .. Len(queue) : queue[i] = m
KnownKind(m) ==
    event_type(msgs[m].routing_key) \in {"deviceCreated", "deviceUpdated", "deviceDeleted"}
\* the derived row without its store-local updated_at
Visible(row) == [f \in DOMAIN row \ {"updated_at"} |-> row[f]]

(* ------------------------------- C1 ----------------------------------- *)

\* C1 as stated: every acknowledged message had its store operation return
\* first, and a message whose handling raised is nacked and delivered only once.
C1_AckOnlyAfterStore ==
    \A m \in Messages :
        /\ Occurs("Acked", Hist(m)) => Hist(m) = <<"Received", "Decoded", "Applied", "Acked">>
        /\ Occurs("Nacked", Hist(m)) => Count("Received", Hist(m)) = 1 /\ ~InQueue(m)

\* C1 (amended): a message whose event type (the last segment of its routing
\* key, with created, updated and deleted renamed) is deviceCreated,
\* deviceUpdated or deviceDeleted is acknowledged only after its store operation
\* returned; a message of any other event type with a JSON body is acknowledged
\* with no store operation;
\* whenever decoding, validation or the store operation raises, the message is
\* nacked without requeue, is not put back on the queue and is delivered once.
C1_AckPolicy ==
    \A m \in Messages :
        /\ InQueue(m) <=> Hist(m) = <<>>
        /\ m \in inflight <=> Hist(m) = <<"Received", "Decoded">>
        /\ Count("Received", Hist(m)) <= 1
        /\ StoreOperation(msgs[m]) = "raise" =>
              Hist(m) \in {<<>>, <<"Received", "Nacked">>}
        /\ StoreOperation(msgs[m]) \in {"save", "delete"} =>
              /\ KnownKind(m)
              /\ Hist(m) \in {<<>>, <<"Received", "Decoded">>,
                               <<"Received", "Decoded", "Applied", "Acked">>,
                               <<"Received", "Decoded", "Nacked">>}
              /\ Occurs("Applied", Hist(m)) <=> \E i \in 1 .. Len(applied) : applied[i].m = m
        /\ StoreOperation(msgs[m]) = "ack" =>
              /\ ~KnownKind(m)
              /\ Hist(m) \in {<<>>, <<"Received", "Decoded", "Acked">>}

\* a message whose store operation raised was nacked and dropped, while another
\* was acknowledged after its store operation returned
C1_Witness ==
    \E m, k \in Messages :
        /\ Hist(m) = <<"Received", "Decoded", "Nacked">> /\ ~InQueue(m)
        /\ Hist(k) = <<"Received", "Decoded", "Applied", "Acked">>

(* ------------------------------- C2 ----------------------------------- *)

\* save_device_to_db applied n times, at successive times
RECURSIVE SaveTimes(_, _, _, _)
SaveTimes(table, d, n, at) ==
    IF n = 0 THEN table
    ELSE SaveTimes(save_device_to_db(table, d, at), d, n - 1, at + 1)

UpsertDevices == {Device(json_loads(b)) : b \in SnapshotBodies}

\* C2: from every derived store the consumer reaches, applying a
\* created/updated event n >= 1 times leaves the same record (all fields but
\* updated_at) as applying it once, and the same other rows.
C2_UpsertIdempotent ==
    \A d \in UpsertDevices : \A n \in 1 .. MaxRepeat :
        LET once == SaveTimes(pool, d, 1, now)
            many == SaveTimes(pool, d, n, now)
        IN  /\ DOMAIN many = DOMAIN once
            /\ Visible(many[d.id.v]) = Visible(once[d.id.v])
            /\ \A i \in DOMAIN once \ {d.id.v} : many[i] = once[i]

\* the consumer applied the same created/updated event twice in a row, at two
\* different times, and holds its row
C2_Witness ==
    /\ Len(applied) = 2
    /\ applied[1].m # applied[2].m
    /\ applied[1].at < applied[2].at
    /\ msgs[applied[1].m].body = msgs[applied[2].m].body
    /\ StoreOperation(msgs[applied[1].m]) = "save"
    /\ StoreOperation(msgs[applied[2].m]) = "save"
    /\ Device(json_loads(msgs[applied[1].m].body)).id.v \in DOMAIN pool

(* ------------------------------- C3 ----------------------------------- *)

DeletedId(m) == DeviceDeleted(json_loads(msgs[m].body)).id.v
\* the step in which the store operation of message m returns
StoreReturned(m) == m \in inflight /\ applied' = Append(applied, [m |-> m, at |-> now])

\* C3: a DeviceDeleted event for an id with no derived row leaves the derived
\* store as it is and the message is acknowledged; a delete removes the row of
\* its id and no other, and deleting again changes nothing more.
C3_DeleteIdempotent ==
    /\ [](\A id \in DeviceIds :
            /\ id \notin DOMAIN pool => delete_device_from_db(pool, id) = pool
            /\ delete_device_from_db(delete_device_from_db(pool, id), id)
                  = delete_device_from_db(pool, id))
    /\ [][\A m \in Messages :
            StoreReturned(m) /\ StoreOperation(msgs[m]) = "delete" =>
                /\ DeletedId(m) \notin DOMAIN pool => pool' = pool
                /\ DOMAIN pool' = DOMAIN pool \ {DeletedId(m)}
                /\ \A i \in DOMAIN pool' : pool'[i] = pool[i]
                /\ msgs'[m].hist = <<"Received", "Decoded", "Applied", "Acked">>]_vars

\* the same DeviceDeleted event was applied twice: the second application found
\* no row, raised nothing, and its message was acked
C3_Witness ==
    \E i, j \in 1 .. Len(applied) :
        /\ i < j
        /\ StoreOperation(msgs[applied[i].m]) = "delete"
        /\ StoreOperation(msgs[applied[j].m]) = "delete"
        /\ DeletedId(applied[i].m) = DeletedId(applied[j].m)
        /\ Hist(applied[j].m) = <<"Received", "Decoded", "Applied", "Acked">>
        /\ DeletedId(applied[j].m) \notin DOMAIN pool

(* ------------------------------- C4 ----------------------------------- *)

\* a devices.created / devices.updated message whose JSON object lacks id, name or type
LacksRequired(m) ==
    /\ msgs[m].routing_key \in {RK_CREATED, RK_UPDATED}
    /\ JsonDecodes(msgs[m].body)
    /\ IsObject(json_loads(msgs[m].body))
    /\ \E f \in DeviceRequired : f \notin DOMAIN json_loads(msgs[m].body)

\* C4: a devices.created / devices.updated message whose body lacks a required
\* field is nacked without requeue when it is handled, never reaches a store
\* operation, and the derived store is the same after handling it as before.
C4_MissingFieldRejected ==
    /\ [](\A m \in Messages : LacksRequired(m) =>
            /\ Hist(m) \in {<<>>, <<"Received", "Nacked">>}
            /\ m \notin inflight
            /\ \A i \in 1 .. Len(applied) : applied[i].m # m)
    /\ [][\A m \in Messages :
            LacksRequired(m) /\ msgs'[m].hist # msgs[m].hist =>
                /\ pool' = pool
                /\ msgs'[m].hist = <<"Received", "Nacked">>
                /\ \A i \in 1 .. Len(queue') : queue'[i] # m]_vars

\* a devices.created message without name was nacked and dropped, and the row an
\* earlier event wrote is still in the store
C4_Witness ==
    \E m \in Messages :
        /\ msgs[m].routing_key = RK_CREATED
        /\ LacksRequired(m)
        /\ "name" \notin DOMAIN json_loads(msgs[m].body)
        /\ Hist(m) = <<"Received", "Nacked">>
        /\ ~InQueue(m)
        /\ pool # <<>>

(* ------------------------------- C5 ----------------------------------- *)

Origin(m) == msgs[m].origin
EventDevice(m) == Device(json_loads(msgs[m].body))

\* C5 as stated: when the DeviceCreated event of a committed create_device is the
\* one event applied to the (empty) derived store, the derived row equals the
\* authoritative snapshot in id, name, type, description, location,
\* connection_info, tags (None as the empty list) and created_at.
C5_CreatedRecordEqualsSnapshot ==
    (/\ Len(applied) = 1
     /\ Origin(applied[1].m) > 0
     /\ msgs[applied[1].m].routing_key = RK_CREATED)
    => LET snapshot == req[Origin(applied[1].m)].device
           row == pool[snapshot.id]
       IN  /\ row.id = snapshot.id
           /\ row.name = snapshot.name
           /\ row.type = snapshot.type
           /\ row.description = snapshot.description
           /\ row.location = snapshot.location
           /\ json_loads(row.connection_info) = snapshot.connection_info
           /\ row.tags = IF snapshot.tags = JNull THEN JList(<<>>) ELSE snapshot.tags
           /\ row.created_at = snapshot.created_at

(* ------------------------------- C6 ----------------------------------- *)

\* the acknowledged created/updated (resp. deleted) messages for a device id
AckedSaves(id) ==
    {m \in Messages : /\ StoreOperation(msgs[m]) = "save"
                      /\ EventDevice(m).id.v = id
                      /\ Occurs("Acked", Hist(m))}
AckedDeletes(id) ==
    {m \in Messages : /\ StoreOperation(msgs[m]) = "delete"
                      /\ DeletedId(m) = id
                      /\ Occurs("Acked", Hist(m))}
\* messages are queued, and so delivered, in the order of their numbers
LastDelivered(set) == CHOOSE m \in set : \A k \in set : k <= m

\* C6 as stated: once every delivered message is settled, the derived row of an
\* id (that no event deleted) carries the name and the other event fields of the
\* created/updated event for that id that was delivered last.
C6_LastDeliveredWins ==
    \A id \in DeviceIds :
        (/\ queue = <<>> /\ inflight = {}
         /\ AckedSaves(id) # {} /\ AckedDeletes(id) = {})
        => LET d == EventDevice(LastDelivered(AckedSaves(id)))
           IN  /\ id \in DOMAIN pool
               /\ pool[id].name = d.name
               /\ pool[id].type = d.type
               /\ pool[id].description = d.description
               /\ pool[id].location = d.location
               /\ pool[id].connection_info = json_dumps(Or(d.connection_info, JDict(<<>>)))
               /\ pool[id].tags = Or(d.tags, JList(<<>>))

(* ------------------------------- C7 ----------------------------------- *)

\* C7: when the consumer applies the devices.created event a create_device
\* published, the derived store holds a row with the created device's id and the
\* event's name and tags; when it applies the devices.deleted event a
\* delete_device published, the derived store holds no row with that device's id.
C7_EndToEnd ==
    [][\A m \in Messages :
        StoreReturned(m) /\ Origin(m) > 0 =>
            LET r == Origin(m)
                id == req[r].device.id
            IN  /\ req[r].op = "create" =>
                      /\ msgs[m].routing_key = RK_CREATED
                      /\ id \in DOMAIN pool'
                      /\ pool'[id].name = EventDevice(m).name
                      /\ pool'[id].name = req[r].data.name
                      /\ pool'[id].tags = Or(EventDevice(m).tags, JList(<<>>))
                      /\ pool'[id].tags = Or(req[r].data.tags, JList(<<>>))
                /\ req[r].op = "delete" =>
                      /\ msgs[m].routing_key = RK_DELETED
                      /\ id \notin DOMAIN pool']_vars

\* a device was created and then deleted through the API; the consumer applied
\* the created event, then the deleted event, and holds no row for the device
C7_Witness ==
    /\ Len(applied) = 2
    /\ Origin(applied[1].m) > 0 /\ Origin(applied[2].m) > 0
    /\ req[Origin(applied[1].m)].op = "create"
    /\ req[Origin(applied[2].m)].op = "delete"
    /\ req[Origin(applied[2].m)].device.id = req[Origin(applied[1].m)].device.id
    /\ req[Origin(applied[1].m)].device.tags = JList(<<"kitchen">>)
    /\ req[Origin(applied[1].m)].device.id \notin DOMAIN pool
    /\ req[Origin(applied[1].m)].device.id \notin DOMAIN db

(* ------------------------------- C8 ----------------------------------- *)

\* the authoritative table shows the write request r committed
WriteInPlace(r) ==
    IF req[r].op = "delete"
    THEN req[r].device.id \notin DOMAIN db
    ELSE req[r].device.id \in DOMAIN db /\ db[req[r].device.id] = req[r].device

\* C8: when the publish (or the reconnect inside it) raises after the commit,
\* the handler ends with the exception (status 500) after its single publish
\* attempt, the committed write stays in the authoritative table while the
\* derived table is not touched, and no event of the request ever reaches the
\* queue or the derived store.
C8_PublishFailureKeepsCommit ==
    /\ [](\A r \in Requests :
            req[r].pc = "failed" /\ req[r].committed =>
                /\ req[r].status = 500
                /\ Len(req[r].attempts) = 1
                /\ \A m \in Messages : Origin(m) # r
                /\ \A i \in 1 .. Len(applied) : Origin(applied[i].m) # r)
    /\ [][\A r \in Requests :
            req'[r].pc = "failed" /\ req[r].pc # "failed" /\ req'[r].committed =>
                /\ IF req[r].committed THEN db' = db ELSE WriteInPlace(r)'
                /\ pool' = pool /\ msgs' = msgs]_vars

\* a create_device committed its device, the publish raised while it awaited the
\* broker, and the device is in the authoritative table but not in the derived one
C8_Witness ==
    \E r \in Requests :
        /\ req[r].op = "create"
        /\ req[r].pc = "failed" /\ req[r].committed
        /\ req[r].via # None
        /\ req[r].device.id \in DOMAIN db
        /\ req[r].device.id \notin DOMAIN pool
        /\ \A q \in Requests : req[q].pc \notin {"idle", "publish"}

(* ------------------------------- C9 ----------------------------------- *)

RoutingKeyOf(op) ==
    CASE op = "create" -> RK_CREATED
      [] op = "update" -> RK_UPDATED
      [] op = "delete" -> RK_DELETED
      [] OTHER -> <<>>

\* C9: a handler calls publish_event exactly once when its write has committed
\* and never otherwise, with the routing key of its operation and the id of the
\* device it wrote; at that call the write is in the authoritative table; a
\* request that ends before its commit (404, failed sensor call) publishes
\* nothing, and every queued event of a request matches its committed write.
C9_PublishOncePerCommit ==
    /\ [](\A r \in Requests :
            /\ Len(req[r].attempts) = IF req[r].committed THEN 1 ELSE 0
            /\ req[r].committed =>
                  req[r].attempts[1] = <<RoutingKeyOf(req[r].op), req[r].device.id>>
            /\ Cardinality({m \in Messages : Origin(m) = r})
                  = IF req[r].pc = "done" THEN 1 ELSE 0
            /\ \A m \in Messages : Origin(m) = r =>
                  /\ req[r].committed
                  /\ msgs[m].routing_key = RoutingKeyOf(req[r].op)
                  /\ json_loads(msgs[m].body).id = JInt(req[r].device.id)
            /\ req[r].status = 404 => ~req[r].committed)
    /\ [][\A r \in Requests :
            Len(req'[r].attempts) > Len(req[r].attempts) =>
                req'[r].committed /\ WriteInPlace(r)']_vars

\* one request committed a create and its devices.created event is queued, while
\* another ended with 404 before any commit and published nothing
C9_Witness ==
    \E r, q \in Requests :
        /\ req[r].op = "create" /\ req[r].pc = "done" /\ req[r].committed
        /\ \E m \in Messages : Origin(m) = r /\ msgs[m].routing_key = RK_CREATED
        /\ req[q].status = 404 /\ req[q].attempts = <<>>

(* ------------------------------- C10 ---------------------------------- *)

IsSettled(m) == Occurs("Acked", Hist(m)) \/ Occurs("Nacked", Hist(m))

\* the derived table the returned store operations alone produce, in their order
RECURSIVE Replay(_)
Replay(k) ==
    IF k = 0 THEN <<>>
    ELSE StoreResult(Replay(k - 1), msgs[applied[k].m], applied[k].at)

\* C10: every message that reaches the queue is eventually settled, whatever
\* happened to the messages before it; a nack changes neither the derived store
\* nor the messages still waiting; each message is acked or nacked by its own
\* content and its own store operation; and the derived store is exactly what
\* the store operations that returned produce, failed messages leaving no trace.
C10_FailureIsolation ==
    /\ \A m \in 1 .. MaxArrive : (Len(msgs) >= m) ~> (Len(msgs) >= m /\ IsSettled(m))
    /\ [](pool = Replay(Len(applied)))
    /\ [](\A m \in Messages :
            /\ Occurs("Acked", Hist(m)) => StoreOperation(msgs[m]) # "raise"
            /\ Occurs("Nacked", Hist(m)) =>
                  \/ StoreOperation(msgs[m]) = "raise"
                  \/ Hist(m) = <<"Received", "Decoded", "Nacked">>)
    /\ [][\A m \in Messages :
            Occurs("Nacked", msgs'[m].hist) /\ ~Occurs("Nacked", Hist(m)) =>
                /\ pool' = pool
                /\ queue' = SelectSeq(queue, LAMBDA x : x # m)]_vars

\* the first message was nacked; the message delivered after it was applied and
\* acknowledged, and its row is in the derived store
C10_Witness ==
    \E m, k \in Messages :
        /\ m < k
        /\ Occurs("Nacked", Hist(m))
        /\ Hist(k) = <<"Received", "Decoded", "Applied", "Acked">>
        /\ StoreOperation(msgs[k]) = "save"
        /\ EventDevice(k).id.v \in DOMAIN pool

(* ------------------------------- C11 ---------------------------------- *)

\* a queued message whose routing key is none of the three the publisher uses
OtherKey(m) == msgs[m].routing_key \notin {RK_CREATED, RK_UPDATED, RK_DELETED}

\* C11 as stated: a message that the devices.* binding brought to the queue
\* under a routing key other than devices.created, devices.updated and
\* devices.deleted is never applied (no store operation is started or returns
\* for it, and handling it leaves the derived store unchanged) and never nacked.
C11_UnknownKeyNoOp ==
    /\ [](\A m \in Messages : OtherKey(m) =>
            /\ m \notin inflight
            /\ ~Occurs("Applied", Hist(m))
            /\ ~Occurs("Nacked", Hist(m)))
    /\ [][\A m \in Messages :
            OtherKey(m) /\ msgs'[m].hist # msgs[m].hist => pool' = pool]_vars

(* ------------------------------- C12 ---------------------------------- *)

\* the device id the store operation of message m names
TargetId(m) ==
    IF StoreOperation(msgs[m]) = "save" THEN EventDevice(m).id.v ELSE DeletedId(m)

\* C12 as stated: at most one process_message handler is between receipt and
\* ack/nack at any time, and the store operations for one device id return in
\* the order in which their messages were delivered.
C12_OneAtATime ==
    /\ Cardinality(inflight) <= 1
    /\ \A i, j \in 1 .. Len(applied) :
          i < j /\ TargetId(applied[i].m) = TargetId(applied[j].m)
              => applied[i].m < applied[j].m

(* ------------------------------- C13 ---------------------------------- *)

\* row `after` is row `before` overwritten by the event fields of device d at
\* time at_: created_at (and id) kept, the six event fields taken from d,
\* updated_at set to at_
OverwrittenBy(before, after, d, at_) ==
    /\ after.id = before.id
    /\ after.created_at = before.created_at
    /\ after.name = d.name
    /\ after.type = d.type
    /\ after.description = d.description
    /\ after.location = d.location
    /\ after.connection_info = json_dumps(Or(d.connection_info, JDict(<<>>)))
    /\ after.tags = Or(d.tags, JList(<<>>))
    /\ after.updated_at = Timestamp(at_)

\* C13: an upsert for an id that has a derived row keeps the row's created_at,
\* overwrites name, type, description, location, connection_info and tags with
\* the event's, and sets updated_at to the time of the upsert; this holds for
\* every snapshot applied to every derived store the consumer reaches, and for
\* every save the consumer performs on an existing row.
C13_ConflictKeepsCreatedAt ==
    /\ [](\A d \in UpsertDevices : \A at_ \in now .. MaxClock + 1 :
            d.id.v \in DOMAIN pool =>
                OverwrittenBy(pool[d.id.v],
                              save_device_to_db(pool, d, at_)[d.id.v], d, at_))
    /\ [][\A m \in Messages :
            (/\ StoreReturned(m)
             /\ StoreOperation(msgs[m]) = "save"
             /\ EventDevice(m).id.v \in DOMAIN pool)
            => /\ EventDevice(m).id.v \in DOMAIN pool'
               /\ OverwrittenBy(pool[EventDevice(m).id.v], pool'[EventDevice(m).id.v],
                                EventDevice(m), now)]_vars

\* a row inserted at time 0 was upserted again at time 1 by an event with
\* another name: it carries the new name, created_at 0 and updated_at 1
C13_Witness ==
    /\ Len(applied) = 2
    /\ applied[1].at = 0 /\ applied[2].at = 1
    /\ StoreOperation(msgs[applied[1].m]) = "save"
    /\ StoreOperation(msgs[applied[2].m]) = "save"
    /\ EventDevice(applied[1].m).id = EventDevice(applied[2].m).id
    /\ EventDevice(applied[1].m).name # EventDevice(applied[2].m).name
    /\ LET row == pool[EventDevice(applied[2].m).id.v]
       IN  /\ row.name = EventDevice(applied[2].m).name
           /\ row.created_at = Timestamp(0)
           /\ row.updated_at = Timestamp(1)

(* ------------------------------- C14 ---------------------------------- *)

OptionalEventFields == {"description", "location", "connection_info", "tags"}
\* what the upsert stores for an optional field the event does not carry
StoredDefault(f) ==
    CASE f = "connection_info" -> json_dumps(JDict(<<>>))
      [] f = "tags" -> JList(<<>>)
      [] OTHER -> JNull
\* the optional fields absent from the JSON object of message m
Omitted(m) == OptionalEventFields \ DOMAIN json_loads(msgs[m].body)

\* C14: when a created/updated event that omits an optional field is applied to
\* an id that has a derived row, the row holds the empty/default value of that
\* field afterwards (NULL for description and location, {} for connection_info,
\* [] for tags), whatever it held before; the same holds for every partial
\* snapshot applied to every derived store the consumer reaches.
C14_OverwriteNotMerge ==
    /\ [](\A i \in DOMAIN pool :
            LET d == Device(PartialSnapshot(i, "B"))
                row == save_device_to_db(pool, d, now)[i]
            IN  \A f \in OptionalEventFields : row[f] = StoredDefault(f))
    /\ [][\A m \in Messages :
            (/\ StoreReturned(m)
             /\ StoreOperation(msgs[m]) = "save"
             /\ EventDevice(m).id.v \in DOMAIN pool)
            => \A f \in Omitted(m) :
                  pool'[EventDevice(m).id.v][f] = StoredDefault(f)]_vars

\* a full snapshot wrote description, connection_info and tags of a device;
\* a later event for the same id without them was applied, and the row now
\* has none of the three
C14_Witness ==
    /\ Len(applied) = 2
    /\ StoreOperation(msgs[applied[1].m]) = "save"
    /\ StoreOperation(msgs[applied[2].m]) = "save"
    /\ EventDevice(applied[1].m).id = EventDevice(applied[2].m).id
    /\ Omitted(applied[1].m) = {}
    /\ EventDevice(applied[1].m).description # JNull
    /\ Truthy(EventDevice(applied[1].m).connection_info)
    /\ Truthy(EventDevice(applied[1].m).tags)
    /\ Omitted(applied[2].m) = OptionalEventFields
    /\ LET row == pool[EventDevice(applied[2].m).id.v]
       IN  /\ row.description = JNull
           /\ row.connection_info = json_dumps(JDict(<<>>))
           /\ row.tags = JList(<<>>)

(* ------------------------------- C15 ---------------------------------- *)

\* the step settles message m with a nack
NackStep(m) == Occurs("Nacked", msgs'[m].hist) /\ ~Occurs("Nacked", Hist(m))
\* the step acknowledges message m without a store operation
NoOpAckStep(m) == Hist(m) = <<>> /\ msgs'[m].hist = <<"Received", "Decoded", "Acked">>

OpenConnections == {c \in 1 .. Len(conns) : conns[c] = "open"}

\* C16 as stated: whatever the interleaving of publish_event calls, at most one
\* broker connection opened by RabbitMQClient is open, and every publish that
\* awaits the broker on an open connection went through the one channel the
\* client holds.
C16_SingleConnection ==
    /\ Cardinality(OpenConnections) <= 1
    /\ \A r \in Requests :
          req[r].pc = "publish" /\ ~IsClosed(req[r].via)
              => req[r].via = rabbitmq_client.channel

(* ------------------------------- C17 ---------------------------------- *)

\* the step in which request r calls publish_event
CallsPublishEvent(r) == Len(req'[r].attempts) > Len(req[r].attempts)
\* the step in which the publish_event call of request r calls self.exchange.publish
CallsExchangePublish(r) == req[r].exchange = None /\ req'[r].exchange # None

\* C17, the reuse and reconnect rules: a publish_event call that finds the
\* cached connection open publishes on the cached exchange at once, opening no
\* connection and leaving the cached handles as they are; a call that finds the
\* connection absent or closed publishes nothing before its own connect has
\* declared the exchange, and then publishes on the exchange it declared.
C17_ReuseOrReconnect ==
    [][\A r \in Requests :
        /\ CallsPublishEvent(r) /\ ~NeedsConnect(rabbitmq_client) =>
              /\ CallsExchangePublish(r)
              /\ req'[r].exchange = rabbitmq_client.exchange
              /\ conns' = conns /\ rabbitmq_client' = rabbitmq_client
        /\ CallsPublishEvent(r) /\ NeedsConnect(rabbitmq_client) =>
              /\ req'[r].pc = "connect_robust"
              /\ req'[r].exchange = None
        /\ CallsExchangePublish(r) /\ ~CallsPublishEvent(r) =>
              /\ req[r].pc = "declare_exchange"
              /\ req'[r].exchange = req[r].via
              /\ rabbitmq_client'.exchange = req[r].via
              /\ ~IsClosed(req[r].via)]_vars

\* C17 as stated: the reuse and reconnect rules, and no publish_event call
\* calls publish on an exchange whose connection is reported closed when the
\* call starts.
C17_NoPublishOnClosedHandle ==
    /\ C17_ReuseOrReconnect
    /\ [][\A r \in Requests :
            CallsPublishEvent(r) /\ CallsExchangePublish(r) =>
                ~IsClosed(req'[r].exchange)]_vars

(* ------------------------------- C18 ---------------------------------- *)

\* the event type and the store operation the consumer derives for each of the
\* publisher's routing keys
EventTypeOf(routing_key) ==
    CASE routing_key = RK_CREATED -> <<"deviceCreated", "save">>
      [] routing_key = RK_UPDATED -> <<"deviceUpdated", "save">>
      [] routing_key = RK_DELETED -> <<"deviceDeleted", "delete">>

\* C18: publisher and consumer declare the same exchange (name, type topic,
\* durable); each of devices.created, devices.updated and devices.deleted
\* matches the queue's binding and is mapped by its last segment to
\* deviceCreated, deviceUpdated, deviceDeleted; every event the device
\* management API publishes is appended to the consumer queue when the publish
\* returns, under the key of its operation, and the consumer derives from it
\* the upsert (created, updated) or the delete (deleted) of that operation.
C18_RoutedAndMapped ==
    /\ [](/\ PublisherExchange = ConsumerExchange
          /\ PublisherExchange.type = "topic" /\ PublisherExchange.durable
          /\ \A rk \in {RK_CREATED, RK_UPDATED, RK_DELETED} :
                BindingMatches(rk) /\ event_type(rk) = EventTypeOf(rk)[1])
    /\ [](\A m \in Messages : Origin(m) > 0 =>
            /\ msgs[m].routing_key = RoutingKeyOf(req[Origin(m)].op)
            /\ event_type(msgs[m].routing_key) = EventTypeOf(msgs[m].routing_key)[1]
            /\ StoreOperation(msgs[m]) = EventTypeOf(msgs[m].routing_key)[2]
            /\ TargetId(m) = req[Origin(m)].device.id)
    /\ [][\A r \in Requests :
            req[r].pc = "publish" /\ req'[r].pc = "done" =>
                /\ Len(msgs') = Len(msgs) + 1
                /\ queue' = Append(queue, Len(msgs'))
                /\ msgs'[Len(msgs')].origin = r
                /\ msgs'[Len(msgs')].routing_key = req[r].routing_key
                /\ msgs'[Len(msgs')].body = json_dumps(req[r].message_data)]_vars

\* the devices.updated event of an update_device reached the queue and was
\* applied as an upsert, and the derived row carries the updated name
C18_Witness ==
    \E m \in Messages :
        /\ Origin(m) > 0
        /\ req[Origin(m)].op = "update"
        /\ msgs[m].routing_key = RK_UPDATED
        /\ Hist(m) = <<"Received", "Decoded", "Applied", "Acked">>
        /\ req[Origin(m)].device.id \in DOMAIN pool
        /\ pool[req[Origin(m)].device.id].name = JStr("B")

(* ------------------------------- C19 ---------------------------------- *)

\* every delivered message is eventually settled, by one ack or one nack and
\* never both, and a settled message stays as it is
SettledOnce ==
    /\ \A m \in 1 .. MaxArrive : (Len(msgs) >= m) ~> (Len(msgs) >= m /\ IsSettled(m))
    /\ [](\A m \in Messages :
            Count("Acked", Hist(m)) + Count("Nacked", Hist(m)) <= 1)
    /\ [][\A m \in Messages : IsSettled(m) => msgs'[m].hist = msgs[m].hist]_vars

SensorCalls == {"create_sensor", "update_sensor", "delete_sensor"}
\* the device request r works on calls for the external sensor service
SensorDevice(r) ==
    IF req[r].op = "create"
    THEN req[r].data.type = JStr("temperature_sensor")
    ELSE /\ req[r].device # JNull
         /\ req[r].device.type = JStr("temperature_sensor")
         /\ req[r].device.external_id # JNull

\* what a step may do to the sensors and around a raising sensor call
SensorSteps ==
    /\ \A r \in Requests :
          req'[r].sensor = "raised" /\ req[r].sensor # "raised" =>
              /\ req[r].sensor = "called"
              /\ db' = db /\ sensors' = sensors
              /\ msgs' = msgs /\ outbox' = outbox
    /\ Len(sensors') >= Len(sensors)
    /\ sensors' # sensors =>
          \E r \in Requests :
              /\ req[r].sensor = "called" /\ req'[r].sensor = "returned"
              /\ \A e \in 1 .. Len(sensors) :
                    sensors'[e] # sensors[e] =>
                        /\ req[r].op # "create"
                        /\ e = req[r].device.external_id.v
    /\ \A r \in Requests :
          req[r].sensor = "returned" /\ req[r].pc # "failed" /\ req'[r].pc = "failed" =>
              sensors' = sensors

\* C20: a handler calls the external sensor service only for a device of type
\* temperature_sensor (in update and delete: one with an external id); while
\* the call is awaited the handler has neither written nor published, and it
\* writes only after the call returned; when the call raises the handler ends
\* with status 500, no authoritative write and no published event, in that
\* step and ever after; the state of a sensor changes only when a call for it
\* returns, so a later failure of the handler (commit or publish) undoes nothing.
C20_SensorCallFirstNoCompensation ==
    /\ [](\A r \in Requests :
            /\ req[r].sensor # "none" => SensorDevice(r)
            /\ req[r].pc \in SensorCalls <=> req[r].sensor = "called"
            /\ req[r].sensor = "called" => ~req[r].committed /\ req[r].attempts = <<>>
            /\ req[r].committed /\ SensorDevice(r) => req[r].sensor = "returned"
            /\ req[r].sensor = "raised" =>
                  /\ req[r].pc = "failed" /\ req[r].status = 500
                  /\ ~req[r].committed /\ req[r].attempts = <<>>
                  /\ \A m \in Messages : Origin(m) # r)
    /\ [][SensorSteps]_vars

\* a create_device for a temperature_sensor had its sensor created, committed
\* its device and then failed to publish: the sensor and the device are there,
\* no event is; another request ended when its sensor call raised, with no
\* write and no publish attempt
C20_Witness ==
    \E r, q \in Requests :
        /\ req[r].op = "create" /\ req[r].sensor = "returned"
        /\ req[r].pc = "failed" /\ req[r].committed
        /\ sensors[req[r].device.external_id.v] = "present"
        /\ req[r].device.id \in DOMAIN db
        /\ \A m \in Messages : Origin(m) # r
        /\ req[q].sensor = "raised" /\ req[q].pc = "failed"
        /\ ~req[q].committed /\ req[q].attempts = <<>>

(* ------------------------------- C21 ---------------------------------- *)

\* every write request that started has finished, every commit was followed
\* by a successful publish, the queue is drained and no message was nacked
Quiescent ==
    /\ \A r \in Requests :
          /\ req[r].pc \in {"idle", "done", "failed"}
          /\ req[r].committed => req[r].pc = "done"
    /\ queue = <<>> /\ inflight = {}
    /\ \A m \in Messages : ~Occurs("Nacked", Hist(m))

\* the derived table holds exactly the ids of the authoritative table, each
\* with the authoritative name, type, description, location and tags
Converged ==
    /\ DOMAIN pool = DOMAIN db
    /\ \A id \in DOMAIN db :
          /\ pool[id].name = db[id].name
          /\ pool[id].type = db[id].type
          /\ pool[id].description = db[id].description
          /\ pool[id].location = db[id].location
          /\ pool[id].tags = Or(db[id].tags, JList(<<>>))

\* C21 as stated: once all write requests have finished with every publish
\* successful, the queue is drained and no message was nacked, the derived
\* store has converged to the authoritative store.
C21_Convergence == Quiescent => Converged

(* ------------------------------- C22 ---------------------------------- *)

\* the events of the API for device id, in the order the exchange received them
EventsOf(id) ==
    {m \in Messages : Origin(m) > 0 /\ req[Origin(m)].device.id = id}
\* every request that committed a write of device id has had its publish return
AllPublished(id) ==
    \A r \in Requests :
        req[r].committed /\ req[r].device.id = id => req[r].pc = "done"

\* C22 as stated: the events of two requests that committed writes of the same
\* device id reach the exchange in the order of the commits, reconnects
\* included; so once every such request has published, the last event for the
\* id carries the latest committed state: the authoritative row, or its
\* absence after a delete.
C22_PublishOrderFollowsCommitOrder ==
    \A id \in DeviceIds :
        /\ \A m, k \in EventsOf(id) :
              m < k => req[Origin(m)].commit_no < req[Origin(k)].commit_no
        /\ AllPublished(id) /\ EventsOf(id) # {} =>
              LET last == LastDelivered(EventsOf(id))
              IN  IF id \in DOMAIN db
                  THEN /\ msgs[last].routing_key \in {RK_CREATED, RK_UPDATED}
                       /\ json_loads(msgs[last].body) = device_data(db[id])
                  ELSE msgs[last].routing_key = RK_DELETED

====
